---------------------------- MODULE Spec2Model ----------------------------
(***************************************************************************)
(* One agent of the 452 game-theory engine, driven by an external driver   *)
(* through choose_action / update / reset, together with the game whose    *)
(* payoffs the driver feeds back.                                          *)
(*                                                                         *)
(* Python values are encoded as follows: action symbols are the strings    *)
(* "C", "D", "A", "B"; None is the string "None"; the numeric actions of   *)
(* the public-goods game are written as their literals "0" and "10.0", so  *)
(* that a symbol never equals a number, as in Python.  Payoffs are         *)
(* integers.  Q-values are exact rationals kept as integer numerators over *)
(* the common denominator QScale.                                          *)
(***************************************************************************)
EXTENDS Integers, Sequences, FiniteSets, TLC

VARIABLES
    strategy,                \* which class the agent is an instance of
    maxlen,                  \* BaseAgent.memory.maxlen
    memory,                  \* BaseAgent.memory (deque of records)
    total_payoff,            \* BaseAgent.total_payoff
    round_count,             \* BaseAgent.round_count
    last_action,             \* Pavlov.last_action
    triggered,               \* GrimTrigger.triggered
    q_table,                 \* QLearningAgent.q_table: state -> action -> value
    opponent_action_counts,  \* FictitiousPlay.opponent_action_counts
    epsilon,                 \* QLearningAgent.epsilon, as a numerator over EpsilonDen
    game,                    \* parameters of the games the driver plays
    driver,                  \* how the external driver picks update's arguments
    log,                     \* history: arguments of every update since construction/reset
    steps,                   \* history: number of update calls since construction
    op,                      \* history: the last handler called
    game_type,               \* history: argument of the last choose_action
    ret,                     \* history: value returned by the last choose_action
    branch,                  \* history: "explore"/"greedy" branch of the last Q-Learn choose_action
    fresh,                   \* history: the last choose_action directly followed an update/reset/construction
    public_goods,            \* the PublicGoodsGame the driver holds: n, r, endowment
    call,                    \* the last factory or game operation called, with its arguments
    result,                  \* whether that call returned, and the value it returned
    error,                   \* the exception that call raised (type None when it returned)
    population,              \* the agents of a population, each a record of its attributes
    match                    \* the driver loop of a two-agent match: position, round, actions, payoffs

agent == <<strategy, maxlen, memory, total_payoff, round_count,
           last_action, triggered, q_table, opponent_action_counts, epsilon>>
history == <<log, steps, op, game_type, ret, branch, fresh>>
outcome == <<call, result, error>>
crowd == <<population, match>>
vars == <<agent, game, public_goods, driver, history, outcome, crowd>>

----------------------------------------------------------------------------
(* Bounds of the model *)

MaxRounds == 2       \* update calls per run under the free driver
MaxQRounds == 3      \* update calls per run of the Q-learning specification
MaxFPRounds == 3     \* update calls per run of the fictitious-play specification
MaxMemRounds == 101  \* update calls per run of the scripted (long) driver
ScriptFree == 2      \* rounds in which the scripted driver still picks the opponent action freely
MaxN == 2            \* largest n passed to create_population
MaxKeys == 2         \* most keys of a composition passed to create_mixed_population
MaxCount == 2        \* largest count of a composition
MaxPlayers == 4      \* largest n of a PublicGoodsGame
MaxPopRounds == 2    \* update calls per run on the agents of a population
MaxMatchRounds == 10 \* rounds of a two-agent match
MaxTwinHistory == 2  \* update calls on an agent before its reset
MaxTwinRounds == 2   \* update calls on the agent and on its twin after the reset
MaxTwinAnswers == 2  \* choose_action calls in a row on the agent and on its twin

----------------------------------------------------------------------------
(* Values *)

None == "None"
PDActions == {"C", "D"}
COORDActions == {"A", "B"}
Symbols == PDActions \cup COORDActions
GameTypes == {"PD", "COORD", "PG"}
Strategies == {"AllC", "AllD", "Random", "TFT", "Pavlov", "Grim", "Q-Learn", "Fictitious"}
Payoffs == {-1, 2, 3}   \* payoffs the free driver passes to update
QPayoffs == {-1, 2}     \* payoffs it passes to a Q-learning agent

Max(a, b) == IF a >= b THEN a ELSE b
Min(a, b) == IF a <= b THEN a ELSE b

RECURSIVE SumPayoff(_)
SumPayoff(s) == IF s = <<>> THEN 0 ELSE s[1].payoff + SumPayoff(Tail(s))

Range(f) == {f[x] : x \in DOMAIN f}
SetMax(S) == CHOOSE v \in S : \A w \in S : v >= w

RECURSIVE SetSum(_)
SetSum(f) ==
    IF DOMAIN f = {} THEN 0
    ELSE LET k == CHOOSE x \in DOMAIN f : TRUE
         IN f[k] + SetSum([x \in DOMAIN f \ {k} |-> f[x]])

----------------------------------------------------------------------------
(* game/base_game.py *)

PD_R == 3
PD_S == 0
PD_T == 5
PD_P == 1
COORD_high == 4
COORD_low == 2
COORD_mismatch == 0

DefaultGame == [R |-> PD_R, S |-> PD_S, T |-> PD_T, P |-> PD_P,
                high |-> COORD_high, low |-> COORD_low, mismatch |-> COORD_mismatch]

\* PrisonersDilemma.__init__: the matrix built from (R, S, T, P)
PrisonersDilemma_PAYOFF_MATRIX(g) ==
    [p \in PDActions \X PDActions |->
        IF p = <<"C", "C">> THEN <<g.R, g.R>>
        ELSE IF p = <<"C", "D">> THEN <<g.S, g.T>>
        ELSE IF p = <<"D", "C">> THEN <<g.T, g.S>>
        ELSE <<g.P, g.P>>]

PrisonersDilemma_play(g, action1, action2) ==
    PrisonersDilemma_PAYOFF_MATRIX(g)[<<action1, action2>>]

PrisonersDilemma_get_actions == PDActions

\* CoordinationGame.__init__
CoordinationGame_PAYOFF_MATRIX(g) ==
    [p \in COORDActions \X COORDActions |->
        IF p = <<"A", "A">> THEN <<g.high, g.high>>
        ELSE IF p = <<"B", "B">> THEN <<g.low, g.low>>
        ELSE <<g.mismatch, g.mismatch>>]

CoordinationGame_play(g, action1, action2) ==
    CoordinationGame_PAYOFF_MATRIX(g)[<<action1, action2>>]

CoordinationGame_get_actions == COORDActions

\* PublicGoodsGame.get_actions: [0, self.endowment], endowment = 10.0
PublicGoodsGame_get_actions == {"0", "10.0"}

\* the action alphabet each game declares
get_actions(gt) ==
    IF gt = "PD" THEN PrisonersDilemma_get_actions
    ELSE IF gt = "COORD" THEN CoordinationGame_get_actions
    ELSE PublicGoodsGame_get_actions

----------------------------------------------------------------------------
(* agent/base_agent.py *)

\* deque(maxlen=cap).append(rec): a full deque drops its oldest item
deque_append_drop_newest(mem, cap, rec) ==
    IF Len(mem) >= cap THEN mem ELSE Append(mem, rec)

deque_append(mem, cap, rec) ==
    IF cap = 0 THEN mem
    ELSE IF Len(mem) = cap THEN Append(Tail(mem), rec)
    ELSE Append(mem, rec)

BaseAgent_total_payoff_overwritten(total, payoff) == payoff

BaseAgent_total_payoff_after(total, payoff) == total + payoff

\* BaseAgent.update
BaseAgent_update(my_action, opponent_action, payoff) ==
    /\ memory' = deque_append(memory, maxlen,
                    [my_action |-> my_action, opponent_action |-> opponent_action,
                     payoff |-> payoff, round |-> round_count])
    /\ total_payoff' = BaseAgent_total_payoff_after(total_payoff, payoff)
    /\ round_count' = round_count + 1

\* BaseAgent.reset
BaseAgent_reset ==
    /\ memory' = <<>>
    /\ total_payoff' = 0
    /\ round_count' = 0

\* BaseAgent.get_last_opponent_action
get_last_opponent_action(mem) ==
    IF Len(mem) > 0 THEN mem[Len(mem)].opponent_action ELSE None

----------------------------------------------------------------------------
(* The external driver and the call history *)

\* the (my_action, opponent_action, payoff) triples the driver may pass to update
UpdateInputs ==
    IF driver.mode = "free" THEN
        ((IF "PD" \in driver.game_types THEN PDActions \X PDActions ELSE {})
         \cup
         (IF "COORD" \in driver.game_types THEN COORDActions \X COORDActions ELSE {}))
        \X driver.payoffs
    ELSE IF driver.mode = "game" THEN
        {<<<<p[1], p[2]>>, PrisonersDilemma_play(game, p[1], p[2])[1]>> :
            p \in PDActions \X PDActions}
        \cup
        {<<<<p[1], p[2]>>, CoordinationGame_play(game, p[1], p[2])[1]>> :
            p \in COORDActions \X COORDActions}
    ELSE
        {<<<<"C", o>>, 0>> :
            o \in IF round_count < ScriptFree THEN PDActions ELSE {"C"}}

Called_choose_action(gt, r, br) ==
    /\ op' = "choose_action"
    /\ game_type' = gt
    /\ ret' = r
    /\ branch' = br
    /\ fresh' = (op # "choose_action")
    /\ UNCHANGED <<log, steps, game, driver, public_goods, outcome, crowd>>

Called_update(my_action, opponent_action, payoff) ==
    /\ op' = "update"
    /\ log' = Append(log, [my_action |-> my_action,
                           opponent_action |-> opponent_action, payoff |-> payoff])
    /\ steps' = steps + 1
    /\ game_type' = None /\ ret' = None /\ branch' = None /\ fresh' = FALSE
    /\ UNCHANGED <<game, driver, public_goods, outcome, crowd>>

Called_reset ==
    /\ op' = "reset"
    /\ log' = <<>>
    /\ game_type' = None /\ ret' = None /\ branch' = None /\ fresh' = FALSE
    /\ UNCHANGED <<steps, game, driver, public_goods, outcome, crowd>>

----------------------------------------------------------------------------
(* agent/simple_agent.py *)

AlwaysCooperate_action(gt) ==
    IF gt = "PD" THEN "C" ELSE IF gt = "COORD" THEN "A" ELSE "C"

AlwaysDefect_action(gt) ==
    IF gt = "PD" THEN "D" ELSE IF gt = "COORD" THEN "B" ELSE "D"

\* RandomAgent.choose_action when random.random() < self.coop_prob is coop
RandomAgent_action(gt, coop) ==
    IF coop THEN (IF gt = "PD" THEN "C" ELSE "A")
            ELSE (IF gt = "PD" THEN "D" ELSE "B")

AlwaysCooperate_choose_action_retaliating ==
    /\ strategy = "AllC"
    /\ \E gt \in driver.game_types :
        Called_choose_action(gt,
            IF round_count > 0 THEN (IF gt = "COORD" THEN "B" ELSE "D")
            ELSE IF gt = "PD" THEN "C" ELSE IF gt = "COORD" THEN "A" ELSE "C", None)
    /\ UNCHANGED agent

AlwaysCooperate_choose_action ==
    /\ strategy = "AllC"
    /\ \E gt \in driver.game_types :
        Called_choose_action(gt, AlwaysCooperate_action(gt), None)
    /\ UNCHANGED agent

AlwaysDefect_choose_action ==
    /\ strategy = "AllD"
    /\ \E gt \in driver.game_types :
        Called_choose_action(gt, AlwaysDefect_action(gt), None)
    /\ UNCHANGED agent

\* random.random() < self.coop_prob: either outcome (coop_prob = 0.5)
RandomAgent_choose_action ==
    /\ strategy = "Random"
    /\ \E gt \in driver.game_types, coop \in BOOLEAN :
        Called_choose_action(gt, RandomAgent_action(gt, coop), None)
    /\ UNCHANGED agent

\* AlwaysCooperate, AlwaysDefect, RandomAgent and TitForTat inherit update
Inherited_update ==
    /\ strategy \in {"AllC", "AllD", "Random", "TFT"}
    /\ steps < driver.rounds
    /\ \E in \in UpdateInputs :
        /\ BaseAgent_update(in[1][1], in[1][2], in[2])
        /\ Called_update(in[1][1], in[1][2], in[2])
    /\ UNCHANGED <<strategy, maxlen, epsilon, last_action, triggered, q_table,
                   opponent_action_counts>>

\* AlwaysCooperate, AlwaysDefect, RandomAgent, TitForTat and Pavlov inherit reset
Inherited_reset ==
    /\ strategy \in {"AllC", "AllD", "Random", "TFT", "Pavlov"}
    /\ BaseAgent_reset
    /\ Called_reset
    /\ UNCHANGED <<strategy, maxlen, epsilon, last_action, triggered, q_table,
                   opponent_action_counts>>

----------------------------------------------------------------------------
(* agent/med_agent.py *)

TitForTat_action_forgiving(mem, gt) == IF gt = "PD" THEN "C" ELSE "A"

TitForTat_action(mem, gt) ==
    LET last_opponent == get_last_opponent_action(mem)
    IN IF last_opponent = None
       THEN (IF gt = "PD" THEN "C" ELSE "A")
       ELSE last_opponent

TitForTat_choose_action ==
    /\ strategy = "TFT"
    /\ \E gt \in driver.game_types : Called_choose_action(gt, TitForTat_action(memory, gt), None)
    /\ UNCHANGED agent

Pavlov_threshold == 2

Pavlov_wins_never(last_payoff) == FALSE

Pavlov_wins_strict(last_payoff) == last_payoff > Pavlov_threshold

Pavlov_wins(last_payoff) == last_payoff >= Pavlov_threshold

\* the value of self.last_action when Pavlov.choose_action returns (it is also the result)
Pavlov_action(mem, last, gt) ==
    IF Len(mem) = 0 THEN (IF gt = "PD" THEN "C" ELSE "A")
    ELSE IF Pavlov_wins(mem[Len(mem)].payoff) THEN last
    ELSE IF gt = "PD" THEN (IF last = "C" THEN "D" ELSE "C")
    ELSE (IF last = "A" THEN "B" ELSE "A")

Pavlov_choose_action ==
    /\ strategy = "Pavlov"
    /\ \E gt \in driver.game_types :
        /\ last_action' = Pavlov_action(memory, last_action, gt)
        /\ Called_choose_action(gt, Pavlov_action(memory, last_action, gt), None)
    /\ UNCHANGED <<strategy, maxlen, epsilon, memory, total_payoff, round_count,
                   triggered, q_table, opponent_action_counts>>

Pavlov_update ==
    /\ strategy = "Pavlov"
    /\ steps < driver.rounds
    /\ \E in \in UpdateInputs :
        /\ BaseAgent_update(in[1][1], in[1][2], in[2])
        /\ last_action' = in[1][1]
        /\ Called_update(in[1][1], in[1][2], in[2])
    /\ UNCHANGED <<strategy, maxlen, epsilon, triggered, q_table, opponent_action_counts>>

GrimTrigger_action(trig, gt) ==
    IF trig THEN (IF gt = "PD" THEN "D" ELSE "B")
    ELSE (IF gt = "PD" THEN "C" ELSE "A")

GrimTrigger_choose_action ==
    /\ strategy = "Grim"
    /\ \E gt \in driver.game_types : Called_choose_action(gt, GrimTrigger_action(triggered, gt), None)
    /\ UNCHANGED agent

GrimTrigger_triggered_hasty(trig, opponent_action) ==
    IF opponent_action # "C" THEN TRUE ELSE trig

GrimTrigger_triggered_forgiving(trig, opponent_action) ==
    opponent_action \in {"D", "B"}

\* self.triggered after GrimTrigger.update
GrimTrigger_triggered_after(trig, opponent_action) ==
    IF opponent_action \in {"D", "B"} THEN TRUE ELSE trig

GrimTrigger_update ==
    /\ strategy = "Grim"
    /\ steps < driver.rounds
    /\ \E in \in UpdateInputs :
        /\ BaseAgent_update(in[1][1], in[1][2], in[2])
        /\ triggered' = GrimTrigger_triggered_after(triggered, in[1][2])
        /\ Called_update(in[1][1], in[1][2], in[2])
    /\ UNCHANGED <<strategy, maxlen, epsilon, last_action, q_table, opponent_action_counts>>

GrimTrigger_reset ==
    /\ strategy = "Grim"
    /\ BaseAgent_reset
    /\ triggered' = FALSE
    /\ Called_reset
    /\ UNCHANGED <<strategy, maxlen, epsilon, last_action, q_table, opponent_action_counts>>

----------------------------------------------------------------------------
(* agent/adv_agent.py: QLearningAgent *)

\* learning_rate = 0.1 and discount_factor = 0.95, as fractions
AlphaNum == 1
AlphaDen == 10
GammaNum == 19
GammaDen == 20

\* A value written by the k-th update ever made is a multiple of
\* 1 / (AlphaDen * (AlphaDen*GammaDen)^(k-1)); QScale is the common denominator
\* of every value a run can store.
QDepth == Max(Max(Max(MaxRounds, MaxQRounds), MaxPopRounds), 1)
QScale == AlphaDen * (AlphaDen * GammaDen) ^ (QDepth - 1)

EmptyRow == [a \in {} |-> 0]

\* a defaultdict lookup self.q_table[state]: creates the (empty) row when missing
QTouchRow(q, state) ==
    IF state \in DOMAIN q THEN q ELSE q @@ (state :> EmptyRow)

\* the lookup self.q_table[state][a]: creates the entry, as 0.0, when missing
QTouch(q, state, a) ==
    LET q1 == QTouchRow(q, state)
    IN IF a \in DOMAIN q1[state] THEN q1
       ELSE [q1 EXCEPT ![state] = @ @@ (a :> 0)]

QLearningAgent_get_state(mem) ==
    LET last_opponent == get_last_opponent_action(mem)
    IN IF last_opponent # None THEN last_opponent ELSE "init"

QLearningAgent_actions(gt) == IF gt = "PD" THEN {"C", "D"} ELSE {"A", "B"}

QLearningAgent_max_next_q_dropped(q, new_state) == 0

\* max(self.q_table[new_state].values()) if self.q_table[new_state] else 0,
\* on a table in which the row new_state exists
QLearningAgent_max_next_q(q, new_state) ==
    IF DOMAIN q[new_state] = {} THEN 0 ELSE SetMax(Range(q[new_state]))

\* old_q + self.alpha * (payoff + self.gamma * max_next_q - old_q), over QScale
QLearningAgent_new_q(old_q, payoff, max_next_q) ==
    old_q + AlphaNum *
        ((payoff * QScale + GammaNum * (max_next_q \div GammaDen) - old_q) \div AlphaDen)

\* the table after the lookups of update (old_q first, then the row of
\* new_state) and the final store
QLearningAgent_q_after(q, old_state, my_action, new_state, payoff) ==
    LET q1 == QTouch(q, old_state, my_action)
        old_q == q1[old_state][my_action]
        q2 == QTouchRow(q1, new_state)
        max_next_q == QLearningAgent_max_next_q(q2, new_state)
    IN [q2 EXCEPT ![old_state][my_action] =
           QLearningAgent_new_q(old_q, payoff, max_next_q)]

\* epsilon = 0.1 by default
EpsilonNum == 1
EpsilonDen == 10

QLearningAgent_explores_always(eps) == TRUE

\* random.random() < self.epsilon can be true: random() ranges over [0, 1)
QLearningAgent_explores(eps) == eps > 0

\* random.random() < self.epsilon can be false
QLearningAgent_exploits(eps) == eps < EpsilonDen

\* random.random() < self.epsilon: return random.choice(actions); the table is not read
QLearningAgent_choose_action_explore ==
    /\ strategy = "Q-Learn"
    /\ QLearningAgent_explores(epsilon)
    /\ \E gt \in driver.game_types, a \in Symbols :
        /\ a \in QLearningAgent_actions(gt)
        /\ Called_choose_action(gt, a, "explore")
    /\ UNCHANGED agent

\* the table after q_values = {a: self.q_table[state][a] for a in actions}:
\* both entries of the state are read, and so created
QLearningAgent_q_read(q, state, gt) ==
    LET actions == QLearningAgent_actions(gt)
        a1 == CHOOSE a \in actions : TRUE
        a2 == CHOOSE a \in actions : a # a1
    IN QTouch(QTouch(q, state, a1), state, a2)

\* best_actions = [a for a, q in q_values.items() if q == max_q]
QLearningAgent_best_actions(q, state, gt) ==
    LET actions == QLearningAgent_actions(gt)
        q2 == QLearningAgent_q_read(q, state, gt)
        max_q == SetMax({q2[state][a] : a \in actions})
    IN {a \in actions : q2[state][a] = max_q}

\* otherwise: both entries of the current state are read (and so created) and a
\* maximizer is drawn by random.choice(best_actions)
QLearningAgent_choose_action_greedy ==
    /\ strategy = "Q-Learn"
    /\ QLearningAgent_exploits(epsilon)
    /\ \E gt \in driver.game_types :
        LET state == QLearningAgent_get_state(memory)
        IN /\ q_table' = QLearningAgent_q_read(q_table, state, gt)
           /\ \E a \in QLearningAgent_best_actions(q_table, state, gt) :
                Called_choose_action(gt, a, "greedy")
    /\ UNCHANGED <<strategy, maxlen, epsilon, memory, total_payoff, round_count,
                   last_action, triggered, opponent_action_counts>>

QLearningAgent_update ==
    /\ strategy = "Q-Learn"
    /\ steps < driver.rounds
    /\ \E in \in UpdateInputs :
        LET old_state == QLearningAgent_get_state(memory)
        IN /\ BaseAgent_update(in[1][1], in[1][2], in[2])
           /\ q_table' = QLearningAgent_q_after(q_table, old_state, in[1][1],
                                                in[1][2], in[2])
           /\ Called_update(in[1][1], in[1][2], in[2])
    /\ UNCHANGED <<strategy, maxlen, epsilon, last_action, triggered, opponent_action_counts>>

QLearningAgent_reset_clearing ==
    /\ strategy = "Q-Learn"
    /\ BaseAgent_reset
    /\ q_table' = EmptyRow
    /\ Called_reset
    /\ UNCHANGED <<strategy, maxlen, epsilon, last_action, triggered, opponent_action_counts>>

\* the q_table.clear() of reset is commented out
QLearningAgent_reset ==
    /\ strategy = "Q-Learn"
    /\ BaseAgent_reset
    /\ Called_reset
    /\ UNCHANGED <<strategy, maxlen, epsilon, last_action, triggered, q_table,
                   opponent_action_counts>>

----------------------------------------------------------------------------
(* agent/adv_agent.py: FictitiousPlay *)

\* the lookup self.opponent_action_counts[action] of a defaultdict(int)
CountsTouch(counts, action) ==
    IF action \in DOMAIN counts THEN counts ELSE counts @@ (action :> 0)

\* 3*p + 0*(1-p) >= 5*p + 1*(1-p) for p = c/total, total > 0.  The two sides
\* differ by at least 1, so rounding never decides the comparison.
FictitiousPlay_PD_cooperates_flipped(c, total) ==
    3 * c + 0 * (total - c) <= 5 * c + 1 * (total - c)

FictitiousPlay_PD_cooperates(c, total) ==
    3 * c + 0 * (total - c) >= 5 * c + 1 * (total - c)

\* 4*p_a >= 2*(1-p_a) for p_a = c/total, total > 0, in binary64.  Away from
\* 3*c = total the sides differ by at least 6/total and the rational comparison
\* decides.  At 3*c = total, p_a is 0.3333333333333333 (below 1/3), 1 - p_a
\* rounds up to 0.6666666666666667, and 1.3333333333333333 >= 1.3333333333333335
\* is false.
FictitiousPlay_COORD_first(c, total) ==
    IF 3 * c = total THEN FALSE ELSE 4 * c >= 2 * (total - c)

FictitiousPlay_insufficient_below_one(total) == total < 1

\* sum(self.opponent_action_counts.values()) < 2
FictitiousPlay_insufficient(total) == total < 2

FictitiousPlay_counts_read_counting(counts, gt) ==
    IF FictitiousPlay_insufficient(SetSum(counts)) THEN counts
    ELSE IF gt = "PD" THEN [CountsTouch(counts, "C") EXCEPT !["C"] = @ + 1]
    ELSE [CountsTouch(counts, "A") EXCEPT !["A"] = @ + 1]

\* the counts after choose_action (a probability lookup creates the entry)
FictitiousPlay_counts_read(counts, gt) ==
    IF FictitiousPlay_insufficient(SetSum(counts)) THEN counts
    ELSE IF gt = "PD" THEN CountsTouch(counts, "C")
    ELSE CountsTouch(counts, "A")

FictitiousPlay_action(counts, gt) ==
    LET total == SetSum(counts) IN
    IF FictitiousPlay_insufficient(total) THEN (IF gt = "PD" THEN "C" ELSE "A")
    ELSE IF gt = "PD" THEN
        (IF FictitiousPlay_PD_cooperates(CountsTouch(counts, "C")["C"], total)
         THEN "C" ELSE "D")
    ELSE
        (IF FictitiousPlay_COORD_first(CountsTouch(counts, "A")["A"], total)
         THEN "A" ELSE "B")

FictitiousPlay_choose_action ==
    /\ strategy = "Fictitious"
    /\ \E gt \in driver.game_types :
        /\ opponent_action_counts' = FictitiousPlay_counts_read(opponent_action_counts, gt)
        /\ Called_choose_action(gt, FictitiousPlay_action(opponent_action_counts, gt), None)
    /\ UNCHANGED <<strategy, maxlen, epsilon, memory, total_payoff, round_count,
                   last_action, triggered, q_table>>

FictitiousPlay_update ==
    /\ strategy = "Fictitious"
    /\ steps < driver.rounds
    /\ \E in \in UpdateInputs :
        /\ BaseAgent_update(in[1][1], in[1][2], in[2])
        /\ opponent_action_counts' =
               [CountsTouch(opponent_action_counts, in[1][2]) EXCEPT ![in[1][2]] = @ + 1]
        /\ Called_update(in[1][1], in[1][2], in[2])
    /\ UNCHANGED <<strategy, maxlen, epsilon, last_action, triggered, q_table>>

FictitiousPlay_reset_keeping_counts ==
    /\ strategy = "Fictitious"
    /\ BaseAgent_reset
    /\ Called_reset
    /\ UNCHANGED <<strategy, maxlen, epsilon, last_action, triggered, q_table,
                   opponent_action_counts>>

FictitiousPlay_reset ==
    /\ strategy = "Fictitious"
    /\ BaseAgent_reset
    /\ opponent_action_counts' = EmptyRow
    /\ Called_reset
    /\ UNCHANGED <<strategy, maxlen, epsilon, last_action, triggered, q_table>>

----------------------------------------------------------------------------
(* Construction: agent/agent_factory.py AGENT_TYPES and each __init__ *)

memory_length(s) ==
    IF s \in {"AllC", "AllD", "Random"} THEN 0
    ELSE IF s \in {"TFT", "Pavlov"} THEN 1
    ELSE IF s = "Q-Learn" THEN 50
    ELSE 100

\* the epsilon values a QLearningAgent is constructed with: the default and 0
Epsilons == {EpsilonNum, 0}

ConstructedWith(s, eps) ==
    /\ strategy = s
    /\ epsilon = eps
    /\ maxlen = memory_length(s)
    /\ memory = <<>>
    /\ total_payoff = 0
    /\ round_count = 0
    /\ last_action = None
    /\ triggered = FALSE
    /\ q_table = EmptyRow
    /\ opponent_action_counts = EmptyRow

Constructed(s) == ConstructedWith(s, IF s = "Q-Learn" THEN EpsilonNum ELSE None)

NoCalls ==
    /\ log = <<>> /\ steps = 0 /\ op = "init"
    /\ game_type = None /\ ret = None /\ branch = None /\ fresh = FALSE
    /\ call = [op |-> None]
    /\ result = [returned |-> FALSE, value |-> None]
    /\ error = [type |-> None, arg |-> None]

NoMatch == [pc |-> None, round |-> 0, action1 |-> None, action2 |-> None,
            payoff1 |-> 0, payoff2 |-> 0]

NoPopulation == population = <<>> /\ match = NoMatch

\* game configurations: valid PrisonersDilemma(R,S,T,P) and CoordinationGame(high, low, mismatch)
GameConfigs ==
    {DefaultGame,
     [DefaultGame EXCEPT !.R = 4, !.S = -1, !.T = 6, !.P = 0],
     [DefaultGame EXCEPT !.high = 2, !.low = 4],
     [DefaultGame EXCEPT !.high = 5, !.low = 1, !.mismatch = 2]}

----------------------------------------------------------------------------
(* Calls that return a value or raise *)

Returned(v) == [raised |-> FALSE, value |-> v]
Raised(type, arg) == [raised |-> TRUE, value |-> [type |-> type, arg |-> arg]]

\* the call c was made and ended as out
Called(c, out) ==
    /\ call' = c
    /\ result' = [returned |-> ~out.raised, value |-> IF out.raised THEN None ELSE out.value]
    /\ error' = IF out.raised THEN out.value ELSE [type |-> None, arg |-> None]

\* no agent is being driven
NoAgent ==
    /\ strategy = None /\ maxlen = 0 /\ memory = <<>>
    /\ total_payoff = 0 /\ round_count = 0
    /\ last_action = None /\ triggered = FALSE
    /\ q_table = EmptyRow /\ opponent_action_counts = EmptyRow
    /\ epsilon = None
    /\ driver = [mode |-> None, rounds |-> 0, game_types |-> {}, payoffs |-> {}]

----------------------------------------------------------------------------
(* agent/agent_factory.py *)

AGENT_TYPES == Strategies

\* identifiers the driver passes: the registry and one name outside it
Identifiers == AGENT_TYPES \cup {"Bogus"}
CompositionKeys == {"TFT", "AllD", "Bogus"}
AgentIds == {0, 100}
StartIds == {0, 10}

\* the agent cls.AGENT_TYPES[agent_type](agent_id) builds
NewAgent(agent_type, agent_id) ==
    [strategy |-> agent_type, id |-> agent_id, maxlen |-> memory_length(agent_type),
     memory |-> <<>>, total_payoff |-> 0, round_count |-> 0,
     last_action |-> None, triggered |-> FALSE,
     q_table |-> EmptyRow, opponent_action_counts |-> EmptyRow,
     epsilon |-> IF agent_type = "Q-Learn" THEN EpsilonNum ELSE None]

\* AgentFactory.create
create(agent_type, agent_id) ==
    IF agent_type \notin AGENT_TYPES THEN Raised("ValueError", agent_type)
    ELSE Returned(NewAgent(agent_type, agent_id))

\* [cls.create(agent_type, i) for i in range(n)], from index i on
RECURSIVE create_population_from(_, _, _, _)
create_population_from(agent_type, i, n, agents) ==
    IF i >= n THEN Returned(agents)
    ELSE LET made == create(agent_type, i)
         IN IF made.raised THEN made
            ELSE create_population_from(agent_type, i + 1, n, Append(agents, made.value))

\* AgentFactory.create_population
create_population(agent_type, n) == create_population_from(agent_type, 0, n, <<>>)

next_id_stuck(current_id) == current_id

\* current_id += 1
next_id(current_id) == current_id + 1

\* the loops of create_mixed_population from the j-th agent of the k-th key on;
\* composition is the dict as the sequence of its (key, count) items
RECURSIVE create_mixed_population_from(_, _, _, _, _)
create_mixed_population_from(composition, k, j, current_id, agents) ==
    IF k > Len(composition) THEN Returned(agents)
    ELSE IF j >= composition[k][2]
    THEN create_mixed_population_from(composition, k + 1, 0, current_id, agents)
    ELSE LET made == create(composition[k][1], current_id)
         IN IF made.raised THEN made
            ELSE create_mixed_population_from(composition, k, j + 1, next_id(current_id),
                                              Append(agents, made.value))

\* AgentFactory.create_mixed_population
create_mixed_population(composition, start_id) ==
    create_mixed_population_from(composition, 1, 0, start_id, <<>>)

\* dicts of at most MaxKeys keys with counts 0..MaxCount, in iteration order
Compositions ==
    {c \in UNION {[1..len -> CompositionKeys \X (0..MaxCount)] : len \in 0..MaxKeys} :
        \A i, j \in DOMAIN c : i # j => c[i][1] # c[j][1]}

AgentFactory_create ==
    /\ \E agent_type \in Identifiers, agent_id \in AgentIds :
        Called([op |-> "create", agent_type |-> agent_type, agent_id |-> agent_id],
               create(agent_type, agent_id))
    /\ UNCHANGED <<agent, game, public_goods, driver, history, crowd>>

AgentFactory_create_population ==
    /\ \E agent_type \in Identifiers, n \in 0..MaxN :
        Called([op |-> "create_population", agent_type |-> agent_type, n |-> n],
               create_population(agent_type, n))
    /\ UNCHANGED <<agent, game, public_goods, driver, history, crowd>>

AgentFactory_create_mixed_population ==
    /\ \E composition \in Compositions, start_id \in StartIds :
        Called([op |-> "create_mixed_population", composition |-> composition,
                start_id |-> start_id],
               create_mixed_population(composition, start_id))
    /\ UNCHANGED <<agent, game, public_goods, driver, history, crowd>>

----------------------------------------------------------------------------
(* The handlers on one agent of a population, the agent being a record of its *)
(* attributes                                                                 *)

\* BaseAgent.update on the agent a
Agent_base_update(a, my_action, opponent_action, payoff) ==
    [a EXCEPT !.memory = deque_append(a.memory, a.maxlen,
                            [my_action |-> my_action, opponent_action |-> opponent_action,
                             payoff |-> payoff, round |-> a.round_count]),
              !.total_payoff = BaseAgent_total_payoff_after(a.total_payoff, payoff),
              !.round_count = a.round_count + 1]

\* update of the class of a
Agent_update(a, my_action, opponent_action, payoff) ==
    LET base == Agent_base_update(a, my_action, opponent_action, payoff) IN
    IF a.strategy = "Pavlov" THEN [base EXCEPT !.last_action = my_action]
    ELSE IF a.strategy = "Grim"
    THEN [base EXCEPT !.triggered = GrimTrigger_triggered_after(a.triggered, opponent_action)]
    ELSE IF a.strategy = "Q-Learn"
    THEN [base EXCEPT !.q_table =
             QLearningAgent_q_after(a.q_table, QLearningAgent_get_state(a.memory),
                                    my_action, opponent_action, payoff)]
    ELSE IF a.strategy = "Fictitious"
    THEN [base EXCEPT !.opponent_action_counts =
             [CountsTouch(a.opponent_action_counts, opponent_action)
                  EXCEPT ![opponent_action] = @ + 1]]
    ELSE base

Agent_reset_base_only(a) == [a EXCEPT !.memory = <<>>, !.total_payoff = 0, !.round_count = 0]

\* reset of the class of a
Agent_reset(a) ==
    LET base == [a EXCEPT !.memory = <<>>, !.total_payoff = 0, !.round_count = 0] IN
    IF a.strategy = "Grim" THEN [base EXCEPT !.triggered = FALSE]
    ELSE IF a.strategy = "Fictitious" THEN [base EXCEPT !.opponent_action_counts = EmptyRow]
    ELSE base

\* choose_action of the class of a: the possible pairs of the value returned
\* and the agent afterwards
Agent_choose_action(a, gt) ==
    IF a.strategy = "AllC" THEN {[ret |-> AlwaysCooperate_action(gt), agent |-> a]}
    ELSE IF a.strategy = "AllD" THEN {[ret |-> AlwaysDefect_action(gt), agent |-> a]}
    ELSE IF a.strategy = "Random"
    THEN {[ret |-> RandomAgent_action(gt, coop), agent |-> a] : coop \in BOOLEAN}
    ELSE IF a.strategy = "TFT" THEN {[ret |-> TitForTat_action(a.memory, gt), agent |-> a]}
    ELSE IF a.strategy = "Pavlov"
    THEN {[ret |-> Pavlov_action(a.memory, a.last_action, gt),
           agent |-> [a EXCEPT !.last_action = Pavlov_action(a.memory, a.last_action, gt)]]}
    ELSE IF a.strategy = "Grim" THEN {[ret |-> GrimTrigger_action(a.triggered, gt), agent |-> a]}
    ELSE IF a.strategy = "Q-Learn"
    THEN LET state == QLearningAgent_get_state(a.memory) IN
         (IF QLearningAgent_explores(a.epsilon)
          THEN {[ret |-> r, agent |-> a] : r \in QLearningAgent_actions(gt)} ELSE {})
         \cup
         (IF QLearningAgent_exploits(a.epsilon)
          THEN {[ret |-> r,
                 agent |-> [a EXCEPT !.q_table = QLearningAgent_q_read(a.q_table, state, gt)]] :
                   r \in QLearningAgent_best_actions(a.q_table, state, gt)}
          ELSE {})
    ELSE {[ret |-> FictitiousPlay_action(a.opponent_action_counts, gt),
           agent |-> [a EXCEPT !.opponent_action_counts =
                         FictitiousPlay_counts_read(a.opponent_action_counts, gt)]]}

----------------------------------------------------------------------------
(* A population built by the factory, its agents called one at a time *)

\* compositions of the populations driven: two agents of one class, or of two
PopulationCompositions ==
    {<<<<"Q-Learn", 2>>>>, <<<<"Fictitious", 2>>>>, <<<<"Grim", 2>>>>,
     <<<<"Pavlov", 1>>, <<"TFT", 1>>>>}

Population_after_shared_state(pop, i, a) ==
    [k \in DOMAIN pop |->
        IF k = i THEN a
        ELSE [pop[k] EXCEPT !.q_table = a.q_table,
                            !.opponent_action_counts = a.opponent_action_counts,
                            !.triggered = a.triggered]]

\* the population once the handler called on its i-th agent has left that
\* agent as a: every attribute is an instance attribute assigned in __init__
Population_after(pop, i, a) == [pop EXCEPT ![i] = a]

\* the game types and update arguments the driver passes to the agent a
PopulationGameTypes(a) == IF a.strategy = "Q-Learn" THEN {"PD"} ELSE {"PD", "COORD"}

PopulationInputs(a) ==
    (PDActions \X PDActions) \X (IF a.strategy = "Q-Learn" THEN {-1} ELSE QPayoffs)

Population_choose_action ==
    /\ \E i \in DOMAIN population :
        \E gt \in PopulationGameTypes(population[i]) :
          \E o \in Agent_choose_action(population[i], gt) :
            /\ population' = Population_after(population, i, o.agent)
            /\ Called([op |-> "choose_action", index |-> i], Returned(o.ret))
    /\ UNCHANGED <<agent, game, public_goods, driver, history, match>>

Population_update ==
    /\ steps < MaxPopRounds
    /\ \E i \in DOMAIN population :
        \E in \in PopulationInputs(population[i]) :
            /\ population' = Population_after(population, i,
                                 Agent_update(population[i], in[1][1], in[1][2], in[2]))
            /\ Called([op |-> "update", index |-> i], Returned(None))
    /\ steps' = steps + 1
    /\ UNCHANGED <<agent, game, public_goods, driver, match,
                   log, op, game_type, ret, branch, fresh>>

Population_reset ==
    /\ \E i \in DOMAIN population :
        /\ population' = Population_after(population, i, Agent_reset(population[i]))
        /\ Called([op |-> "reset", index |-> i], Returned(None))
    /\ UNCHANGED <<agent, game, public_goods, driver, history, match>>

----------------------------------------------------------------------------
(* test.py: the driver loop of a match between two agents *)

\* the strategies matched: those whose choose_action draws no random number
MatchStrategies == {"AllC", "AllD", "TFT", "Pavlov", "Grim", "Fictitious"}

\* action1 = agent1.choose_action('PD')
Match_choose1 ==
    /\ match.pc = "choose1"
    /\ match.round < MaxMatchRounds
    /\ \E o \in Agent_choose_action(population[1], "PD") :
        /\ population' = Population_after(population, 1, o.agent)
        /\ match' = [match EXCEPT !.pc = "choose2", !.action1 = o.ret]
    /\ UNCHANGED <<agent, game, public_goods, driver, history, outcome>>

\* action2 = agent2.choose_action('PD')
Match_choose2 ==
    /\ match.pc = "choose2"
    /\ \E o \in Agent_choose_action(population[2], "PD") :
        /\ population' = Population_after(population, 2, o.agent)
        /\ match' = [match EXCEPT !.pc = "play", !.action2 = o.ret]
    /\ UNCHANGED <<agent, game, public_goods, driver, history, outcome>>

\* payoff1, payoff2 = PAYOFF[(action1, action2)]
Match_play ==
    /\ match.pc = "play"
    /\ LET payoffs == PrisonersDilemma_play(game, match.action1, match.action2)
       IN match' = [match EXCEPT !.pc = "update1",
                                 !.payoff1 = payoffs[1], !.payoff2 = payoffs[2]]
    /\ UNCHANGED <<agent, game, public_goods, driver, history, outcome, population>>

\* agent1.update(action1, action2, payoff1)
Match_update1 ==
    /\ match.pc = "update1"
    /\ population' = Population_after(population, 1,
            Agent_update(population[1], match.action1, match.action2, match.payoff1))
    /\ match' = [match EXCEPT !.pc = "update2"]
    /\ UNCHANGED <<agent, game, public_goods, driver, history, outcome>>

\* agent2.update(action2, action1, payoff2), the end of the round
Match_update2 ==
    /\ match.pc = "update2"
    /\ population' = Population_after(population, 2,
            Agent_update(population[2], match.action2, match.action1, match.payoff2))
    /\ match' = [match EXCEPT !.pc = "choose1", !.round = match.round + 1]
    /\ UNCHANGED <<agent, game, public_goods, driver, history, outcome>>

----------------------------------------------------------------------------
(* An agent that is used and then reset, beside a newly constructed agent of
   the same class with the same parameters; after the reset both receive the
   same calls *)

\* the classes compared: those without a random draw or a learned table
TwinStrategies == {"AllC", "AllD", "TFT", "Pavlov", "Grim", "Fictitious"}

\* the arguments of update: a pair of actions of one game and a payoff on
\* either side of Pavlov's threshold
TwinInputs == ((PDActions \X PDActions) \cup (COORDActions \X COORDActions)) \X QPayoffs

TwinGameTypes == {"PD", "COORD"}

\* choose_action on the used agent, before its reset
Twin_history_choose_action ==
    /\ match.pc = "history"
    /\ \E gt \in TwinGameTypes :
       \E o \in Agent_choose_action(population[1], gt) :
         population' = Population_after(population, 1, o.agent)
    /\ UNCHANGED <<agent, game, public_goods, driver, history, outcome, match>>

\* update on the used agent, before its reset
Twin_history_update ==
    /\ match.pc = "history"
    /\ population[1].round_count < MaxTwinHistory
    /\ \E in \in TwinInputs :
         population' = Population_after(population, 1,
             Agent_update(population[1], in[1][1], in[1][2], in[2]))
    /\ UNCHANGED <<agent, game, public_goods, driver, history, outcome, match>>

\* reset on the used agent; used records how many update calls it had seen
\* and stale the last_action the reset left in place
Twin_reset ==
    /\ match.pc = "history"
    /\ population' = Population_after(population, 1, Agent_reset(population[1]))
    /\ match' = [match EXCEPT !.pc = "lockstep",
                              !.used = population[1].round_count,
                              !.stale = population[1].last_action]
    /\ UNCHANGED <<agent, game, public_goods, driver, history, outcome>>

\* the same choose_action on both agents; answer1 and answer2 are the values
\* returned, answers the number of such calls since the last update
Twin_choose_action ==
    /\ match.pc = "lockstep"
    /\ match.answers < MaxTwinAnswers
    /\ \E gt \in TwinGameTypes :
       \E o1 \in Agent_choose_action(population[1], gt),
          o2 \in Agent_choose_action(population[2], gt) :
         /\ population' = Population_after(Population_after(population, 1, o1.agent),
                                           2, o2.agent)
         /\ match' = [match EXCEPT !.answer1 = o1.ret, !.answer2 = o2.ret,
                                   !.answers = match.answers + 1]
    /\ UNCHANGED <<agent, game, public_goods, driver, history, outcome>>

\* the same update on both agents
Twin_update ==
    /\ match.pc = "lockstep"
    /\ match.round < MaxTwinRounds
    /\ \E in \in TwinInputs :
         population' = Population_after(
             Population_after(population, 1,
                 Agent_update(population[1], in[1][1], in[1][2], in[2])),
             2, Agent_update(population[2], in[1][1], in[1][2], in[2]))
    /\ match' = [match EXCEPT !.round = match.round + 1, !.answers = 0]
    /\ UNCHANGED <<agent, game, public_goods, driver, history, outcome>>

----------------------------------------------------------------------------
(* game/base_game.py: construction and play as calls that return or raise *)

PDParams == {0, 1, 3, 5}   \* values the driver passes as R, S, T, P

PrisonersDilemma_valid_unordered(R, S, T, P) == T > R /\ P > S

\* T > R > P > S
PrisonersDilemma_valid(R, S, T, P) == T > R /\ R > P /\ P > S

\* PrisonersDilemma.__init__
PrisonersDilemma_init(g, R, S, T, P) ==
    IF ~PrisonersDilemma_valid(R, S, T, P) THEN Raised("AssertionError", <<R, S, T, P>>)
    ELSE Returned([g EXCEPT !.R = R, !.S = S, !.T = T, !.P = P])

PrisonersDilemma_play_lenient(g, action1, action2) ==
    Returned(PrisonersDilemma_PAYOFF_MATRIX(g)[
        <<IF action1 \in PDActions THEN action1 ELSE "C",
          IF action2 \in PDActions THEN action2 ELSE "C">>])

\* PrisonersDilemma.play on any pair of symbols: a missing key is a KeyError
PrisonersDilemma_play_any(g, action1, action2) ==
    IF <<action1, action2>> \in DOMAIN PrisonersDilemma_PAYOFF_MATRIX(g)
    THEN Returned(PrisonersDilemma_play(g, action1, action2))
    ELSE Raised("KeyError", <<action1, action2>>)

\* CoordinationGame.play on any pair of symbols
CoordinationGame_play_any(g, action1, action2) ==
    IF <<action1, action2>> \in DOMAIN CoordinationGame_PAYOFF_MATRIX(g)
    THEN Returned(CoordinationGame_play(g, action1, action2))
    ELSE Raised("KeyError", <<action1, action2>>)

\* multipliers are numerators over RDen: 1.5 (the default) is 3/2, 2.0 is 4/2
RDen == 2
Multipliers == {3, 4}
PG_endowment == 10
Contributions == {0, PG_endowment}

\* PublicGoodsGame.__init__
PGConfigs ==
    {[n |-> n, r |-> r, endowment |-> PG_endowment] :
        n \in 1..MaxPlayers, r \in Multipliers}

RECURSIVE SeqSum(_)
SeqSum(c) == IF c = <<>> THEN 0 ELSE c[1] + SeqSum(Tail(c))

\* payoffs of PublicGoodsGame.play are numerators over RDen * n
PGScale(pg) == RDen * pg.n

PublicGoodsGame_payoff_keeps_contribution(pg, c, total_contribution) ==
    c * PGScale(pg) + pg.r * total_contribution

\* (self.endowment - c) + self.r * total_contribution / self.n
PublicGoodsGame_payoff(pg, c, total_contribution) ==
    (pg.endowment - c) * PGScale(pg) + pg.r * total_contribution

\* PublicGoodsGame.play
PublicGoodsGame_play(pg, contributions) ==
    IF Len(contributions) # pg.n THEN Raised("AssertionError", contributions)
    ELSE LET total_contribution == SeqSum(contributions)
         IN Returned([i \in 1..Len(contributions) |->
                        PublicGoodsGame_payoff(pg, contributions[i], total_contribution)])

Call_PrisonersDilemma_init ==
    /\ \E R \in PDParams, S \in PDParams, T \in PDParams, P \in PDParams :
        LET built == PrisonersDilemma_init(game, R, S, T, P)
        IN /\ Called([op |-> "PrisonersDilemma", R |-> R, S |-> S, T |-> T, P |-> P], built)
           /\ game' = IF built.raised THEN game ELSE built.value
    /\ UNCHANGED <<agent, public_goods, driver, history, crowd>>

Call_PrisonersDilemma_play ==
    /\ \E action1 \in Symbols, action2 \in Symbols :
        Called([op |-> "PrisonersDilemma.play", action1 |-> action1, action2 |-> action2],
               PrisonersDilemma_play_any(game, action1, action2))
    /\ UNCHANGED <<agent, game, public_goods, driver, history, crowd>>

Call_CoordinationGame_play ==
    /\ \E action1 \in Symbols, action2 \in Symbols :
        Called([op |-> "CoordinationGame.play", action1 |-> action1, action2 |-> action2],
               CoordinationGame_play_any(game, action1, action2))
    /\ UNCHANGED <<agent, game, public_goods, driver, history, crowd>>

Call_PublicGoodsGame_play ==
    /\ \E contributions \in UNION {[1..len -> Contributions] : len \in 0..(MaxPlayers + 1)} :
        Called([op |-> "PublicGoodsGame.play", contributions |-> contributions],
               PublicGoodsGame_play(public_goods, contributions))
    /\ UNCHANGED <<agent, game, public_goods, driver, history, crowd>>

----------------------------------------------------------------------------
(* Specifications *)

\* any agent, a driver that passes arbitrary arguments to update (to a Q-learning
\* agent: arbitrary Prisoner's Dilemma actions and payoffs of QPayoffs)
Init ==
    /\ \E s \in Strategies :
        /\ Constructed(s)
        /\ driver = IF s = "Q-Learn"
                    THEN [mode |-> "free", rounds |-> MaxRounds,
                          game_types |-> {"PD"}, payoffs |-> QPayoffs]
                    ELSE [mode |-> "free", rounds |-> MaxRounds,
                          game_types |-> GameTypes, payoffs |-> Payoffs]
    /\ game = DefaultGame
    /\ public_goods = None
    /\ NoCalls
    /\ NoPopulation

Next ==
    \/ AlwaysCooperate_choose_action
    \/ AlwaysDefect_choose_action
    \/ RandomAgent_choose_action
    \/ TitForTat_choose_action
    \/ Pavlov_choose_action
    \/ GrimTrigger_choose_action
    \/ QLearningAgent_choose_action_explore
    \/ QLearningAgent_choose_action_greedy
    \/ FictitiousPlay_choose_action
    \/ Inherited_update
    \/ Pavlov_update
    \/ GrimTrigger_update
    \/ QLearningAgent_update
    \/ FictitiousPlay_update
    \/ Inherited_reset
    \/ GrimTrigger_reset
    \/ QLearningAgent_reset
    \/ FictitiousPlay_reset

Spec == Init /\ [][Next]_vars

\* a Q-learning agent, arbitrary arguments, longer runs
InitQ ==
    /\ \E eps \in Epsilons : ConstructedWith("Q-Learn", eps)
    /\ game = DefaultGame
    /\ public_goods = None
    /\ driver = [mode |-> "free", rounds |-> MaxQRounds,
                 game_types |-> {"PD"}, payoffs |-> QPayoffs]
    /\ NoCalls
    /\ NoPopulation

NextQ ==
    \/ QLearningAgent_choose_action_explore
    \/ QLearningAgent_choose_action_greedy
    \/ QLearningAgent_update
    \/ QLearningAgent_reset

SpecQ == InitQ /\ [][NextQ]_vars

\* a fictitious-play agent in a configured game whose payoffs the driver feeds back
InitFP ==
    /\ Constructed("Fictitious")
    /\ game \in GameConfigs
    /\ public_goods = None
    /\ driver = [mode |-> "game", rounds |-> MaxFPRounds,
                 game_types |-> {"PD", "COORD"}, payoffs |-> {}]
    /\ NoCalls
    /\ NoPopulation

NextFP ==
    \/ FictitiousPlay_choose_action
    \/ FictitiousPlay_update
    \/ FictitiousPlay_reset

SpecFP == InitFP /\ [][NextFP]_vars

\* any agent, long runs of update and reset under the scripted driver
InitMem ==
    /\ \E s \in Strategies : Constructed(s)
    /\ game = DefaultGame
    /\ public_goods = None
    /\ driver = [mode |-> "scripted", rounds |-> MaxMemRounds,
                 game_types |-> {"PD"}, payoffs |-> {0}]
    /\ NoCalls
    /\ NoPopulation

NextMem ==
    \/ Inherited_update
    \/ Pavlov_update
    \/ GrimTrigger_update
    \/ QLearningAgent_update
    \/ FictitiousPlay_update
    \/ Inherited_reset
    \/ GrimTrigger_reset
    \/ QLearningAgent_reset
    \/ FictitiousPlay_reset

SpecMem == InitMem /\ [][NextMem]_vars

\* the factory, called with registered and unregistered identifiers
InitFactory ==
    /\ NoAgent
    /\ game = DefaultGame
    /\ public_goods = None
    /\ NoCalls
    /\ NoPopulation

NextFactory ==
    \/ AgentFactory_create
    \/ AgentFactory_create_population
    \/ AgentFactory_create_mixed_population

SpecFactory == InitFactory /\ [][NextFactory]_vars

\* a population built by create_mixed_population, its agents called in any order
InitPopulation ==
    /\ NoAgent
    /\ game = DefaultGame
    /\ public_goods = None
    /\ NoCalls
    /\ \E composition \in PopulationCompositions :
         population = create_mixed_population(composition, 0).value
    /\ match = NoMatch

NextPopulation ==
    \/ Population_choose_action
    \/ Population_update
    \/ Population_reset

SpecPopulation == InitPopulation /\ [][NextPopulation]_vars

\* a match of two freshly constructed agents in the default Prisoner's Dilemma
InitMatch ==
    /\ NoAgent
    /\ game = DefaultGame
    /\ public_goods = None
    /\ NoCalls
    /\ \E s1 \in MatchStrategies, s2 \in MatchStrategies :
         population = <<NewAgent(s1, 0), NewAgent(s2, 1)>>
    /\ match = [NoMatch EXCEPT !.pc = "choose1"]

NextMatch ==
    \/ Match_choose1
    \/ Match_choose2
    \/ Match_play
    \/ Match_update1
    \/ Match_update2

SpecMatch == InitMatch /\ [][NextMatch]_vars

\* two newly constructed agents of one class; the first is the one used
InitTwin ==
    /\ NoAgent
    /\ game = DefaultGame
    /\ public_goods = None
    /\ NoCalls
    /\ \E s \in TwinStrategies : population = <<NewAgent(s, 0), NewAgent(s, 0)>>
    /\ match = [pc |-> "history", round |-> 0, answers |-> 0,
                answer1 |-> None, answer2 |-> None, used |-> 0, stale |-> None]

NextTwin ==
    \/ Twin_history_choose_action
    \/ Twin_history_update
    \/ Twin_reset
    \/ Twin_choose_action
    \/ Twin_update

SpecTwin == InitTwin /\ [][NextTwin]_vars

\* the three games: a PrisonersDilemma(4, -1, 6, 0) that the driver may replace
\* by constructing another, a CoordinationGame and a PublicGoodsGame
InitGame ==
    /\ NoAgent
    /\ game \in {[g EXCEPT !.R = 4, !.S = -1, !.T = 6, !.P = 0] : g \in GameConfigs}
    /\ public_goods \in PGConfigs
    /\ NoCalls
    /\ NoPopulation

NextGame ==
    \/ Call_PrisonersDilemma_init
    \/ Call_PrisonersDilemma_play
    \/ Call_CoordinationGame_play
    \/ Call_PublicGoodsGame_play

SpecGame == InitGame /\ [][NextGame]_vars

----------------------------------------------------------------------------
(* Properties *)

CooperateSymbol(gt) == IF gt = "PD" THEN "C" ELSE "A"
DefectSymbol(gt) == IF gt = "PD" THEN "D" ELSE "B"
OtherSymbol(gt, a) ==
    IF gt = "PD" THEN CHOOSE b \in PDActions : b # a
    ELSE CHOOSE b \in COORDActions : b # a
TwoSymbolGames == {"PD", "COORD"}
LastCall == log[Len(log)]

\* C1: GrimTrigger is absorbing.  Once some update since construction or the
\* last reset has reported an opponent action D or B, every choose_action
\* returns the defect symbol (D for 'PD', B otherwise), whatever the opponent
\* did afterwards.
C1_GrimAbsorbing ==
    (/\ strategy = "Grim"
     /\ op = "choose_action"
     /\ \E i \in DOMAIN log : log[i].opponent_action \in {"D", "B"})
    => ret = DefectSymbol(game_type)

\* the opponent defected, then returned to cooperation, and Grim still defects
C1_Witness ==
    /\ strategy = "Grim"
    /\ op = "choose_action"
    /\ Len(log) = 2
    /\ log[1].opponent_action = "D"
    /\ log[2].opponent_action = "C"
    /\ ret = "D"

\* C2: TitForTat.  The first choose_action after construction or reset returns
\* the cooperative symbol of the two-symbol game asked about, and every later
\* choose_action returns the opponent action passed to the latest update,
\* however many updates there were.
C2_TitForTatReplays ==
    (strategy = "TFT" /\ op = "choose_action") =>
        IF Len(log) = 0
        THEN game_type \in TwoSymbolGames => ret = CooperateSymbol(game_type)
        ELSE ret = LastCall.opponent_action

\* a second round whose opponent action differs from the first round's
C2_Witness ==
    /\ strategy = "TFT"
    /\ op = "choose_action"
    /\ Len(log) = 2
    /\ log[1].opponent_action = "C"
    /\ log[2].opponent_action = "D"
    /\ ret = "D"

\* C3: Pavlov, in one two-symbol game.  The first choose_action returns the
\* cooperative symbol; a choose_action that directly follows
\* update(my_action, _, payoff), my_action in the game's alphabet, returns
\* my_action when payoff >= threshold and the other symbol when payoff < threshold.
C3_PavlovWinStayLoseShift ==
    (strategy = "Pavlov" /\ op = "choose_action" /\ game_type \in TwoSymbolGames) =>
        IF Len(log) = 0
        THEN ret = CooperateSymbol(game_type)
        ELSE (fresh /\ LastCall.my_action \in get_actions(game_type)) =>
                ret = IF LastCall.payoff >= Pavlov_threshold
                      THEN LastCall.my_action
                      ELSE OtherSymbol(game_type, LastCall.my_action)

\* the boundary: a payoff equal to the threshold is a win
C3_Witness ==
    /\ strategy = "Pavlov"
    /\ op = "choose_action"
    /\ fresh
    /\ Len(log) > 0
    /\ LastCall.payoff = Pavlov_threshold
    /\ LastCall.my_action = "D"
    /\ game_type = "PD"
    /\ ret = "D"

\* C7: for every strategy, total_payoff is the sum of the payoffs passed to
\* update since construction or the last reset, and round_count is the number
\* of those update calls.
C7_PayoffBookkeeping ==
    /\ total_payoff = SumPayoff(log)
    /\ round_count = Len(log)

\* an update, a reset and an update of payoff 3, on a class that overrides update
C7_Witness ==
    /\ strategy = "Pavlov"
    /\ op = "update"
    /\ steps > Len(log)
    /\ Len(log) = 1
    /\ total_payoff = 3

\* the capacity the memory of each strategy is said to have
C8_Capacity(s) ==
    IF s \in {"AllC", "AllD", "Random"} THEN 0
    ELSE IF s \in {"TFT", "Pavlov"} THEN 1
    ELSE IF s = "Q-Learn" THEN 50
    ELSE 100

\* C8: memory is a bounded FIFO.  After k updates since construction or the
\* last reset it holds the most recent min(k, m) calls in call order, tagged
\* with rounds k - min(k, m) .. k - 1, where m is the capacity of the strategy;
\* its length never exceeds m and m never changes.
C8_MemoryFIFO ==
    LET k == Len(log)
        m == C8_Capacity(strategy)
        n == Min(k, m)
    IN /\ maxlen = m
       /\ Len(memory) = n
       /\ Len(memory) <= maxlen
       /\ \A i \in 1..n :
            memory[i] = [my_action |-> log[k - n + i].my_action,
                         opponent_action |-> log[k - n + i].opponent_action,
                         payoff |-> log[k - n + i].payoff,
                         round |-> k - n + i - 1]

\* a memory of capacity 100 that has evicted its oldest record
C8_Witness ==
    /\ strategy = "Grim"
    /\ Len(log) = 101
    /\ Len(memory) = 100
    /\ memory[1].round = 1
    /\ memory[100].round = 100

\* the state the learner is in: the opponent action of the latest update, or
\* 'init' when memory is empty
QState(mem) == IF Len(mem) = 0 THEN "init" ELSE mem[Len(mem)].opponent_action

\* the value at (s, a), an absent entry read as 0 without creating it
QValue(q, s, a) == IF s \in DOMAIN q /\ a \in DOMAIN q[s] THEN q[s][a] ELSE 0

\* the values stored under s
QStored(q, s) == IF s \in DOMAIN q THEN Range(q[s]) ELSE {}

MaxOrZero(V) == IF V = {} THEN 0 ELSE SetMax(V)

\* old + alpha*(r + gamma*maxNext - old), over QScale
QTarget(old, r, maxNext) ==
    old + AlphaNum * ((r * QScale - old) \div AlphaDen)
        + AlphaNum * GammaNum * (maxNext \div (AlphaDen * GammaDen))

\* a step that is an update call on a Q-learning agent; its arguments are LastCall'
QUpdateStep == strategy = "Q-Learn" /\ op' = "update"

\* C4 as stated: update(a, s', r) stores old + alpha*(r + gamma*maxNext - old)
\* at (s, a), where maxNext is the maximum value stored under s' before the
\* call (0 when nothing is stored under s').
C4_AsStated ==
    [][QUpdateStep =>
        LET c == LastCall'
            s == QState(memory)
            old == QValue(q_table, s, c.my_action)
            maxNext == MaxOrZero(QStored(q_table, c.opponent_action))
        IN QValue(q_table', s, c.my_action) = QTarget(old, c.payoff, maxNext)]_vars

\* C4: update(a, s', r) stores old + alpha*(r + gamma*maxNext - old) at (s, a),
\* where s is the state before the call, old the value at (s, a) before the
\* call (0 if absent), and maxNext the maximum of the values stored under s'
\* once the entry (s, a) exists: when s = s' the value old, a 0 for an entry
\* never written, takes part in the maximum.
C4_QUpdateRule ==
    [][QUpdateStep =>
        LET c == LastCall'
            s == QState(memory)
            old == QValue(q_table, s, c.my_action)
            maxNext == MaxOrZero(QStored(q_table, c.opponent_action)
                                 \cup (IF s = c.opponent_action THEN {old} ELSE {}))
        IN QValue(q_table', s, c.my_action) = QTarget(old, c.payoff, maxNext)]_vars

\* third round of D against C with payoff 2 each time: s = s' = C, old = 0.2,
\* maxNext = 0.2, and the stored value is 0.2 + 0.1*(2 + 0.95*0.2 - 0.2) = 0.399
C4_Witness ==
    /\ strategy = "Q-Learn"
    /\ op = "update"
    /\ Len(log) = 3
    /\ \A i \in 1..3 : log[i] = [my_action |-> "D", opponent_action |-> "C", payoff |-> 2]
    /\ 1000 * QValue(q_table, "C", "D") = 399 * QScale

\* the two legal actions of the game the symbol a belongs to
LegalActions(a) == IF a \in PDActions THEN PDActions ELSE COORDActions

\* C5: an entry never written by update behaves as the value 0: the max-next
\* term of update is the maximum over both legal actions of the value at
\* (s', action), never-written entries counted as 0, for all payoffs.
C5_UnseenIsZero ==
    [][QUpdateStep =>
        LET c == LastCall'
            s == QState(memory)
            old == QValue(q_table, s, c.my_action)
            maxNext == SetMax({QValue(q_table, c.opponent_action, b) :
                                  b \in LegalActions(c.opponent_action)})
        IN QValue(q_table', s, c.my_action) = QTarget(old, c.payoff, maxNext)]_vars

\* C6: for every strategy, game type and history, choose_action returns a
\* member of the action alphabet the game declares ({C,D} for 'PD', {A,B} for
\* 'COORD', {0, endowment} for the public-goods mode).
C6_ActionInAlphabet ==
    op = "choose_action" => ret \in get_actions(game_type)

\* how often the opponent action sym was passed to update since construction/reset
Observed(sym) == Cardinality({i \in DOMAIN log : log[i].opponent_action = sym})

\* Len(log) times the expected payoff of action a against the observed mix of
\* opponent actions, in the configured game of type gt
RECURSIVE PayoffAgainst(_, _, _)
PayoffAgainst(gt, a, calls) ==
    IF calls = <<>> THEN 0
    ELSE (IF gt = "PD"
          THEN PrisonersDilemma_play(game, a, calls[1].opponent_action)[1]
          ELSE CoordinationGame_play(game, a, calls[1].opponent_action)[1])
         + PayoffAgainst(gt, a, Tail(calls))

\* C9: FictitiousPlay, once at least 2 opponent actions of the game being
\* played have been observed, returns an action whose expected payoff against
\* the observed opponent mix, computed from the payoff values of the configured
\* game, is at least that of the other action.
C9_BestResponseToGame ==
    (/\ strategy = "Fictitious"
     /\ op = "choose_action"
     /\ game_type \in TwoSymbolGames
     /\ Len(log) >= 2
     /\ \A i \in DOMAIN log : log[i].opponent_action \in get_actions(game_type))
    => /\ ret \in get_actions(game_type)
       /\ PayoffAgainst(game_type, ret, log)
             >= PayoffAgainst(game_type, OtherSymbol(game_type, ret), log)

\* C10: FictitiousPlay in the Prisoner's Dilemma with the default matrix, once
\* at least 2 opponent actions have been observed: the action returned is
\* determined by the counts, it is the maximizer of E[C] = 3p against
\* E[D] = 5p + 1(1-p) for p = count(C)/total, and that maximizer is D.
C10_DefaultPDDefects ==
    (/\ strategy = "Fictitious"
     /\ op = "choose_action"
     /\ game_type = "PD"
     /\ game = DefaultGame
     /\ Len(log) >= 2)
    => /\ ret = (IF PD_R * Observed("C") + PD_S * (Len(log) - Observed("C"))
                    >= PD_T * Observed("C") + PD_P * (Len(log) - Observed("C"))
                 THEN "C" ELSE "D")
       /\ ret = "D"

\* the history [C, C, D]
C10_Witness ==
    /\ strategy = "Fictitious"
    /\ op = "choose_action"
    /\ game_type = "PD"
    /\ game = DefaultGame
    /\ Len(log) = 3
    /\ log[1].opponent_action = "C"
    /\ log[2].opponent_action = "C"
    /\ log[3].opponent_action = "D"
    /\ opponent_action_counts["C"] = 2
    /\ opponent_action_counts["D"] = 1
    /\ ret = "D"

\* C11: FictitiousPlay in the Coordination game with the default payoffs, once
\* at least 2 opponent actions have been observed, returns A exactly when
\* 3*count(A) >= total; at an exact tie (count(A) = total/3) it returns A.
C11_TieFavoursFirst ==
    (/\ strategy = "Fictitious"
     /\ op = "choose_action"
     /\ game_type = "COORD"
     /\ game = DefaultGame
     /\ Len(log) >= 2)
    => (ret = "A" <=> 3 * Observed("A") >= Len(log))

\* C12: FictitiousPlay with fewer than 2 opponent actions observed since
\* construction or the last reset returns the first symbol (C for 'PD', A for
\* 'COORD'), whatever the single observation was.
C12_InsufficientDataFallback ==
    (/\ strategy = "Fictitious"
     /\ op = "choose_action"
     /\ game_type \in TwoSymbolGames
     /\ Len(log) < 2)
    => ret = CooperateSymbol(game_type)

\* one observed defection, after a reset of a longer history, and still C
C12_Witness ==
    /\ strategy = "Fictitious"
    /\ op = "choose_action"
    /\ game_type = "PD"
    /\ steps > Len(log)
    /\ Len(log) = 1
    /\ log[1].opponent_action = "D"
    /\ opponent_action_counts = ("D" :> 1)
    /\ ret = "C"

\* C13: QLearningAgent.reset empties memory, sets total_payoff and round_count
\* to 0 and leaves every stored Q-table value unchanged; the state the next
\* choose_action or update sees is 'init' again, so the values stored under
\* 'init' and under each opponent action are the ones the next episode uses.
C13_ResetKeepsTable ==
    [][(strategy = "Q-Learn" /\ op' = "reset") =>
        /\ q_table' = q_table
        /\ memory' = <<>>
        /\ total_payoff' = 0
        /\ round_count' = 0
        /\ QState(memory') = "init"]_vars

\* after a reset the table still holds the values two updates wrote, under
\* 'init' and under the opponent action C
C13_Witness ==
    /\ strategy = "Q-Learn"
    /\ op = "reset"
    /\ memory = <<>>
    /\ round_count = 0
    /\ steps = 2
    /\ QValue(q_table, "init", "C") # 0
    /\ QValue(q_table, "C", "D") # 0

\* C19: GrimTrigger never defects first.  choose_action returns a defect symbol
\* (D or B) only if some update since construction or the last reset reported
\* an opponent action D or B; otherwise, whatever my_action and payoff values
\* were passed and however long the opponent cooperated, it returns the
\* cooperate symbol of the two-symbol game asked about.
C19_GrimNeverDefectsFirst ==
    (strategy = "Grim" /\ op = "choose_action") =>
        LET provoked == \E i \in DOMAIN log : log[i].opponent_action \in {"D", "B"}
        IN /\ ret \in {"D", "B"} => provoked
           /\ (~provoked /\ game_type \in TwoSymbolGames)
                 => ret = CooperateSymbol(game_type)

\* two rounds of opponent cooperation in which Grim itself was reported as
\* defecting, with a negative payoff, and Grim still cooperates
C19_Witness ==
    /\ strategy = "Grim"
    /\ op = "choose_action"
    /\ game_type = "PD"
    /\ Len(log) = 2
    /\ \A i \in 1..2 : log[i] = [my_action |-> "D", opponent_action |-> "C", payoff |-> -1]
    /\ ~triggered
    /\ ret = "C"

\* the symbol AlwaysCooperate and AlwaysDefect return for each game type
C20_FixedSymbol(s, gt) ==
    IF s = "AllC" THEN (IF gt = "COORD" THEN "A" ELSE "C")
    ELSE (IF gt = "COORD" THEN "B" ELSE "D")

\* C20: AlwaysCooperate and AlwaysDefect are invariant to history.  For a
\* fixed game type choose_action returns one and the same symbol (C/A for
\* AlwaysCooperate, D/B for AlwaysDefect) after any sequence of update and
\* reset calls, whatever opponent actions and payoffs were passed.
C20_HistoryInvariant ==
    (strategy \in {"AllC", "AllD"} /\ op = "choose_action") =>
        ret = C20_FixedSymbol(strategy, game_type)

\* AlwaysCooperate after two rounds of being defected against
C20_Witness ==
    /\ strategy = "AllC"
    /\ op = "choose_action"
    /\ game_type = "PD"
    /\ Len(log) = 2
    /\ \A i \in 1..2 : log[i].opponent_action = "D" /\ log[i].payoff = -1
    /\ round_count = 2
    /\ ret = "C"

FactoryOps == {"create", "create_population", "create_mixed_population"}

\* the identifiers the last factory call was given
CallIdentifiers ==
    IF call.op = "create_mixed_population"
    THEN {call.composition[k][1] : k \in DOMAIN call.composition}
    ELSE {call.agent_type}

\* C14: no factory operation accepts an unrecognized identifier.  create,
\* create_population and create_mixed_population fail with an error naming the
\* identifier whenever the identifier (or a key of the composition) is outside
\* the registry, for every n and every count including 0, and return nothing.
C14_UnknownIdentifierFails ==
    (call.op \in FactoryOps /\ ~(CallIdentifiers \subseteq AGENT_TYPES)) =>
        /\ ~result.returned
        /\ error.type # None
        /\ error.arg \in CallIdentifiers \ AGENT_TYPES

\* the number of agents the first k items of a composition ask for
RECURSIVE CountBefore(_, _)
CountBefore(composition, k) ==
    IF k = 0 THEN 0 ELSE composition[k][2] + CountBefore(composition, k - 1)

\* C15: create_mixed_population(composition, start_id) with registered
\* identifiers returns exactly sum(counts) agents, grouped by strategy in the
\* iteration order of the composition, with ids start_id, start_id + 1, ...,
\* start_id + sum(counts) - 1 in list order.
C15_MixedPopulation ==
    (call.op = "create_mixed_population" /\ CallIdentifiers \subseteq AGENT_TYPES) =>
        LET c == call.composition
            agents == result.value
        IN /\ result.returned
           /\ error.type = None
           /\ Len(agents) = CountBefore(c, Len(c))
           /\ \A i \in 1..Len(agents) : agents[i].id = call.start_id + i - 1
           /\ \A k \in DOMAIN c : \A i \in (CountBefore(c, k - 1) + 1)..CountBefore(c, k) :
                 agents[i].strategy = c[k][1]

\* {TFT: 2, AllD: 1} with start_id = 10 gives TFT 10, TFT 11, AllD 12
C15_Witness ==
    /\ call = [op |-> "create_mixed_population",
               composition |-> <<<<"TFT", 2>>, <<"AllD", 1>>>>, start_id |-> 10]
    /\ result.returned
    /\ Len(result.value) = 3
    /\ \A i \in 1..3 : result.value[i].id = 9 + i
    /\ \A i \in 1..2 : result.value[i].strategy = "TFT"
    /\ result.value[3].strategy = "AllD"

\* C16: PrisonersDilemma(R, S, T, P) is built exactly when T > R > P > S and
\* fails at construction otherwise, so every game that exists satisfies the
\* ordering; play of a built game maps (C,C) to (R,R), (C,D) to (S,T), (D,C)
\* to (T,S) and (D,D) to (P,P), and leaves the game as it was.
C16_PDConstruction ==
    [][/\ call'.op = "PrisonersDilemma" =>
            /\ result'.returned <=>
                  (call'.T > call'.R /\ call'.R > call'.P /\ call'.P > call'.S)
            /\ result'.returned =>
                  <<game'.R, game'.S, game'.T, game'.P>>
                      = <<call'.R, call'.S, call'.T, call'.P>>
            /\ ~result'.returned => (error'.type # None /\ game' = game)
       /\ (call'.op = "PrisonersDilemma.play"
              /\ {call'.action1, call'.action2} \subseteq PDActions) =>
            /\ game' = game
            /\ result'.returned
            /\ result'.value =
                  (IF call'.action1 = "C"
                   THEN (IF call'.action2 = "C" THEN <<game.R, game.R>>
                                               ELSE <<game.S, game.T>>)
                   ELSE (IF call'.action2 = "C" THEN <<game.T, game.S>>
                                               ELSE <<game.P, game.P>>))
       /\ (game'.T > game'.R /\ game'.R > game'.P /\ game'.P > game'.S)]_vars

\* PrisonersDilemma(3, 0, 5, 1) was built and play('C', 'D') returned (0, 5)
C16_Witness ==
    /\ call = [op |-> "PrisonersDilemma.play", action1 |-> "C", action2 |-> "D"]
    /\ <<game.R, game.S, game.T, game.P>> = <<3, 0, 5, 1>>
    /\ result.returned
    /\ result.value = <<0, 5>>

\* C17: invalid inputs to play are failures.  PrisonersDilemma.play and
\* CoordinationGame.play fail for every pair with an action outside the game's
\* own alphabet (symbols of the other game included), and PublicGoodsGame.play
\* fails for every contribution vector whose length differs from n.
C17_InvalidPlayFails ==
    ((\/ /\ call.op = "PrisonersDilemma.play"
          /\ ~({call.action1, call.action2} \subseteq PrisonersDilemma_get_actions)
      \/ /\ call.op = "CoordinationGame.play"
          /\ ~({call.action1, call.action2} \subseteq CoordinationGame_get_actions)
      \/ /\ call.op = "PublicGoodsGame.play"
          /\ Len(call.contributions) # public_goods.n)
     => (~result.returned /\ error.type # None))

\* PrisonersDilemma.play('C', 'A'), an action of the other game's alphabet
C17_Witness ==
    /\ call = [op |-> "PrisonersDilemma.play", action1 |-> "C", action2 |-> "A"]
    /\ ~result.returned
    /\ error = [type |-> "KeyError", arg |-> <<"C", "A">>]

\* C18: PublicGoodsGame.play with n players, multiplier r, endowment e and a
\* contribution vector c of length n returns, in player order, the payoffs
\* (e - c[i]) + r*sum(c)/n (here times RDen*n, with r as r/RDen).
C18_PublicGoodsPayoffs ==
    (call.op = "PublicGoodsGame.play" /\ Len(call.contributions) = public_goods.n) =>
        LET c == call.contributions
            n == public_goods.n
        IN /\ result.returned
           /\ Len(result.value) = n
           /\ \A i \in 1..n :
                 result.value[i] - RDen * n * (public_goods.endowment - c[i])
                     = public_goods.r * SeqSum(c)

\* n = 4, r = 2.0, e = 10, c = [10, 10, 0, 0] gives [10, 10, 20, 20]
C18_Witness ==
    /\ public_goods = [n |-> 4, r |-> 2 * RDen, endowment |-> 10]
    /\ call = [op |-> "PublicGoodsGame.play", contributions |-> <<10, 10, 0, 0>>]
    /\ result.returned
    /\ result.value = [i \in 1..4 |-> <<10, 10, 20, 20>>[i] * RDen * 4]

\* C23: QLearningAgent with epsilon = 0 selects greedily.  In every reachable
\* table state choose_action returns an action whose stored value for the
\* current state (0 if never written) is at least that of the other legal
\* action: either action when the values are equal, the unique maximizer when
\* they differ.
C23_GreedySelection ==
    (strategy = "Q-Learn" /\ epsilon = 0 /\ op = "choose_action") =>
        /\ branch = "greedy"
        /\ ret \in QLearningAgent_actions(game_type)
        /\ \A a \in QLearningAgent_actions(game_type) :
              QValue(q_table, QState(memory), ret) >= QValue(q_table, QState(memory), a)

\* in state C the value of C was written as negative and that of D never: D is returned
C23_Witness ==
    /\ strategy = "Q-Learn"
    /\ epsilon = 0
    /\ op = "choose_action"
    /\ QState(memory) = "C"
    /\ QValue(q_table, "C", "C") < 0
    /\ QValue(q_table, "C", "D") = 0
    /\ ret = "D"

\* the count of sym, an absent count read as 0
CountOf(counts, sym) == IF sym \in DOMAIN counts THEN counts[sym] ELSE 0

\* C25: choose_action is read-only for AllC, AllD, TFT, Grim and Fictitious.
\* It changes no memory record, total_payoff, round_count, trigger flag or
\* opponent count value (an absent count read as 0), and a choose_action that
\* directly follows another with the same game type returns the same action.
C25_ChooseReadOnly ==
    [][(strategy \in {"AllC", "AllD", "TFT", "Grim", "Fictitious"}
          /\ op' = "choose_action") =>
        /\ memory' = memory
        /\ total_payoff' = total_payoff
        /\ round_count' = round_count
        /\ triggered' = triggered
        /\ \A sym \in Symbols :
              CountOf(opponent_action_counts', sym) = CountOf(opponent_action_counts, sym)
        /\ (op = "choose_action" /\ game_type' = game_type) => ret' = ret]_vars

\* FictitiousPlay asked about 'COORD' after observing C twice: the count of A
\* was looked up, and so created, with the value 0
C25_Witness ==
    /\ strategy = "Fictitious"
    /\ op = "choose_action"
    /\ game_type = "COORD"
    /\ Len(log) = 2
    /\ "A" \in DOMAIN opponent_action_counts
    /\ opponent_action_counts["A"] = 0
    /\ opponent_action_counts["C"] = 2
    /\ ret = "B"

\* C26: in FictitiousPlay the opponent action counts sum to round_count in
\* every reachable state, also after more than 100 updates, when memory holds
\* only the last 100 records: the estimate is over the whole history since the
\* last reset.
C26_CountsSumToRounds ==
    strategy = "Fictitious" =>
        /\ SetSum(opponent_action_counts) = round_count
        /\ \A sym \in Symbols : CountOf(opponent_action_counts, sym) = Observed(sym)

\* 101 updates: memory is full at 100 records and the counts sum to 101
C26_Witness ==
    /\ strategy = "Fictitious"
    /\ round_count = 101
    /\ Len(memory) = 100
    /\ SetSum(opponent_action_counts) = 101
    /\ CountOf(opponent_action_counts, "D") = 2

\* C21: no agent state is shared between instances.  In a population built by
\* the factory, two agents of the same strategy included, a choose_action,
\* update or reset call on one agent leaves the memory, total_payoff,
\* round_count, Q-table, opponent counts, trigger flag and last action of
\* every other agent unchanged.
C21_NoSharedState ==
    [][\A i \in DOMAIN population :
          (call'.op \in {"choose_action", "update", "reset"} /\ call'.index # i)
              => population'[i] = population[i]]_vars

\* two Q-learning agents of one population: the first has learned, the second
\* still has the empty table it was constructed with
C21_Witness ==
    /\ Len(population) = 2
    /\ population[1].strategy = "Q-Learn"
    /\ population[2].strategy = "Q-Learn"
    /\ call.op = "update"
    /\ call.index = 1
    /\ population[1].round_count = 2
    /\ QValue(population[1].q_table, "init", "C") # 0
    /\ population[2].q_table = EmptyRow
    /\ population[2].round_count = 0

\* the driver has both actions of the current round
Match_chosen == match.pc \in {"play", "update1", "update2"}

\* C22: in the driver loop, TitForTat against AlwaysDefect plays C in round 1
\* and D in every later round while AlwaysDefect plays D in every round; after
\* k >= 1 rounds the totals are (k-1)*1 for TitForTat and 5 + (k-1)*1 for
\* AlwaysDefect, so TitForTat trails by exactly 5.
C22_TitForTatVersusAlwaysDefect ==
    (population[1].strategy = "TFT" /\ population[2].strategy = "AllD") =>
        /\ Match_chosen =>
              /\ match.action1 = (IF match.round = 0 THEN "C" ELSE "D")
              /\ match.action2 = "D"
        /\ (match.pc = "choose1" /\ match.round >= 1) =>
              /\ population[1].total_payoff = 0 + (match.round - 1) * 1
              /\ population[2].total_payoff = 5 + (match.round - 1) * 1
              /\ population[2].total_payoff - population[1].total_payoff = 5

\* the totals 9 and 14 after 10 rounds
C22_Witness ==
    /\ population[1].strategy = "TFT"
    /\ population[2].strategy = "AllD"
    /\ match.pc = "choose1"
    /\ match.round = 10
    /\ population[1].total_payoff = 9
    /\ population[2].total_payoff = 14

\* C27: mutual cooperation is stable.  Any two agents drawn from AllC, TFT,
\* Pavlov (threshold 2) and Grim, in the driver loop with the default
\* Prisoner's Dilemma, both play C in every round, Grim's trigger is never
\* set, and each total_payoff after k rounds is 3k.
C27_MutualCooperation ==
    ({population[1].strategy, population[2].strategy}
        \subseteq {"AllC", "TFT", "Pavlov", "Grim"}) =>
        /\ Match_chosen => (match.action1 = "C" /\ match.action2 = "C")
        /\ ~population[1].triggered /\ ~population[2].triggered
        /\ match.pc = "choose1" =>
              /\ population[1].total_payoff = 3 * match.round
              /\ population[2].total_payoff = 3 * match.round

\* Pavlov against Grim after 10 rounds
C27_Witness ==
    /\ population[1].strategy = "Pavlov"
    /\ population[2].strategy = "Grim"
    /\ match.pc = "choose1"
    /\ match.round = 10
    /\ population[1].total_payoff = 30
    /\ population[2].total_payoff = 30
    /\ population[1].last_action = "C"
    /\ ~population[2].triggered

\* C24: for AllC, AllD, TFT, Pavlov, Grim and Fictitious, reset is equivalent
\* to fresh construction.  After any choose_action/update calls followed by
\* reset, every answer the agent gives to further choose_action/update calls
\* equals the answer of a newly constructed agent of the same class given the
\* same calls; Pavlov's last_action, which reset leaves in place, takes part
\* in no later answer.
C24_ResetIsFreshConstruction ==
    match.pc = "lockstep" => match.answer1 = match.answer2

\* a Pavlov agent reset with last_action 'D' in place has seen an update since
\* and answers its second choose_action in a row as its twin does
C24_Witness ==
    /\ match.pc = "lockstep"
    /\ population[1].strategy = "Pavlov"
    /\ match.used = MaxTwinHistory
    /\ match.stale = "D"
    /\ match.round >= 1
    /\ match.answers = 2
    /\ match.answer1 = "C"
    /\ match.answer2 = "C"

============================================================================
